---------------------------- MODULE Spec2Model ----------------------------
(***************************************************************************)
(* A model of the Cosima-to-TTE notebook (src/cosima2TTE.ipynb): the        *)
(* class Hit and the class CosimaSim with its three operations open, merge  *)
(* and to_TTE.                                                              *)
(*                                                                         *)
(* Three specifications share the variables:                               *)
(*   Spec       CosimaSim.open reading a log record by record;             *)
(*   SpecMerge  sequences of CosimaSim.merge calls on runs that open made; *)
(*   SpecTTE    CosimaSim.to_TTE on one run and one table of edges.        *)
(*                                                                         *)
(* Quantities: a time is an integer number of seconds, an energy an        *)
(* integer number of keV.  Python's None and an unbound local are the      *)
(* empty sequence, a value v is <<v>>.  A text field of a record is a      *)
(* sequence of chunks (strings), the chunk " " being whitespace.           *)
(***************************************************************************)
EXTENDS Integers, Sequences, FiniteSets, TLC

VARIABLES
    \* ---- CosimaSim.open
    time_shift,   \* argument time_shift of open
    line,         \* the record file.readline() returned last (NoRec if none)
    pc,           \* "scan" | "returned" | "raised"
    err,          \* the exception that left open ("" when none)
    in_events,    \* local in_events
    time,         \* local time: <<>> while unbound, <<t>> once assigned
    obj,          \* the CosimaSim under construction: tstart, tstop, nthrown, hits
    ref,          \* the same log read by open(log, detector_dict, 0)
    hist,         \* what the records read so far were (history of the input)
    \* ---- CosimaSim.merge
    heap,         \* the Hit objects: identity -> [detector, time, energy]
    runs,         \* the CosimaSim objects: name -> [tstart, tstop, nthrown, hits]
    call,         \* the last merge call: [self, other, shift]
    nmerges,      \* number of merge calls made
    past,         \* per merge call made: runs and heap before it, the call
    \* ---- CosimaSim.to_TTE
    tte           \* the frame of to_TTE: its arguments, locals and result

vars == <<time_shift, line, pc, err, in_events, time, obj, ref, hist,
          heap, runs, call, nmerges, past, tte>>

-----------------------------------------------------------------------------
(* Bounds *)

\* records HT read inside an event block, per log
MaxHits == 2

\* merge calls in one behaviour
MaxMerges == 2

\* Hit objects on the heap, and length of self.hits after a merge
MaxLen == 2

-----------------------------------------------------------------------------
(* Values *)

None    == <<>>
Some(v) == <<v>>

Min(a, b) == IF b < a THEN b ELSE a
Max(a, b) == IF b > a THEN b ELSE a

\* class Hit: the constructor stores its three arguments
Hit(detector, t, energy) == [detector |-> detector, time |-> t, energy |-> energy]

\* CosimaSim.__init__
NewSim == [tstart |-> None, tstop |-> None, nthrown |-> None, hits |-> <<>>]

\* the detector_dict of the notebook; a key is the chunks of "x,y"
detector_dict ==
    (<<"4.88500", ",", "4.88500">>   :> "q0") @@
    (<<"-4.88500", ",", "4.88500">>  :> "q1") @@
    (<<"-4.88500", ",", "-4.88500">> :> "q2") @@
    (<<"4.88500", ",", "-4.88500">>  :> "q3")

-----------------------------------------------------------------------------
(* Text *)

\* the numerals the logs of the model use, and the number each one denotes
NumVal ==
    ("0" :> 0) @@ ("1" :> 1) @@ ("2" :> 2) @@ ("3" :> 3) @@ ("4" :> 4) @@
    ("5" :> 5) @@ ("7" :> 7) @@ ("9" :> 9)

RECURSIVE LStrip(_)
LStrip(s) == IF s # <<>> /\ Head(s) = " " THEN LStrip(Tail(s)) ELSE s

RECURSIVE RStrip(_)
RStrip(s) ==
    IF s # <<>> /\ s[Len(s)] = " " THEN RStrip(SubSeq(s, 1, Len(s) - 1)) ELSE s

\* str.strip(): whitespace is removed at both ends and nowhere else
Strip(s) == RStrip(LStrip(s))

\* float(s) and int(s): the number, or ValueError
ParseNum(s) ==
    LET t == Strip(s)
    IN  IF Len(t) = 1 /\ t[1] \in DOMAIN NumVal
        THEN [ok |-> TRUE, v |-> NumVal[t[1]]]
        ELSE [ok |-> FALSE, v |-> 0]

\* x.strip()+','+y.strip()
CoordKey(x, y) == Strip(x) \o <<",">> \o Strip(y)


-----------------------------------------------------------------------------
(* The log: the records file.readline() can return *)

\* a record: key is line[0:2]; args are the fields after the first one, as
\* line.split() gives them (TB, TE, TS, TI) or as line.split(';') gives them (HT)
Rec(key, args) == [key |-> key, args |-> args]
NoRec == Rec("", <<>>)

Fld(c) == <<c>>

\* an HT record "HT..;x;y;z;energy": split(';')[1], [2] and [4] are read
HTRec(x, y, energy) == Rec("HT", <<x, y, Fld("0"), energy>>)

Lines ==
    { Rec("TB", <<Fld("1")>>), Rec("TB", <<Fld("3")>>), Rec("TB", <<>>),
      Rec("TE", <<Fld("2")>>), Rec("TS", <<Fld("5")>>),
      Rec("SE", <<>>), Rec("EN", <<>>),
      Rec("TI", <<Fld("1")>>), Rec("TI", <<Fld("4")>>), Rec("TI", <<>>),
      HTRec(<<" ", "4.88500">>, <<"4.88500", " ">>, <<" ", "7">>),
      HTRec(<<"-4.88500">>, <<"-4.88500">>, <<"9">>),
      HTRec(<<"0.00000">>, <<"4.88500">>, <<"7">>),
      Rec("HT", <<Fld("4.88500"), Fld("4.88500"), Fld("0")>>),
      Rec("NF", <<>>), Rec("IN", <<>>), Rec("\n", <<>>) }

\* the values of argument time_shift
Shifts == {-2, 3}

-----------------------------------------------------------------------------
(* CosimaSim.open *)

\* the locals of one call of open
Frame(p, e, ie, t, o) ==
    [pc |-> p, err |-> e, in_events |-> ie, time |-> t, obj |-> o]

\* obj = cls(); in_events = False; time is not bound yet
OpenFrame == Frame("scan", "", FALSE, None, NewSim)

Raise(st, e) == [st EXCEPT !.pc = "raised", !.err = e]

\* the exception of `raise InputError(...)`: the notebook binds no name
\* InputError, so evaluating the statement raises NameError; open is left at
\* this statement either way
UnsupportedErr == "NameError: InputError (NF/IN keys not supported)"

AssertErr(k) == "AssertionError: " \o k \o " key not found"

\* float(line.split()[1]) * u.second + time_shift, for TI
TimeOfTINoShift(v, shift) == v
TimeOfTI(v, shift) == v + shift

\* float(line.split()[1])*u.second + time_shift, for TB and TE
BoundOf(v, shift) == v + shift

\* if key == "TI": time = ...
ReadTILenient(st, ln, shift) ==
    IF Len(ln.args) < 1 THEN st
    ELSE LET p == ParseNum(ln.args[1])
         IN  IF ~p.ok THEN Raise(st, "ValueError")
             ELSE [st EXCEPT !.time = Some(TimeOfTI(p.v, shift))]
ReadTI(st, ln, shift) ==
    IF Len(ln.args) < 1 THEN Raise(st, "IndexError")
    ELSE LET p == ParseNum(ln.args[1])
         IN  IF ~p.ok THEN Raise(st, "ValueError")
             ELSE [st EXCEPT !.time = Some(TimeOfTI(p.v, shift))]

\* obj.hits = np.append(obj.hits, Hit(...))
AddHitFront(hits, h) == <<h>> \o hits
AddHit(hits, h) == Append(hits, h)

\* the statements of an HT record, in the order in which they can raise
ReadHTSkipUnknown(st, ln) ==
    IF Len(ln.args) < 4 THEN Raise(st, "IndexError")
    ELSE LET k == CoordKey(ln.args[1], ln.args[2])
             e == ParseNum(ln.args[4])
         IN  IF k \notin DOMAIN detector_dict THEN st
             ELSE IF ~e.ok THEN Raise(st, "ValueError")
             ELSE IF st.time = None THEN Raise(st, "UnboundLocalError")
             ELSE [st EXCEPT !.obj.hits =
                       AddHit(@, Hit(detector_dict[k], st.time[1], e.v))]
ReadHT(st, ln) ==
    IF Len(ln.args) < 4 THEN Raise(st, "IndexError")
    ELSE LET k == CoordKey(ln.args[1], ln.args[2])
             e == ParseNum(ln.args[4])
         IN  IF k \notin DOMAIN detector_dict THEN Raise(st, "KeyError")
             ELSE IF ~e.ok THEN Raise(st, "ValueError")
             ELSE IF st.time = None THEN Raise(st, "UnboundLocalError")
             ELSE [st EXCEPT !.obj.hits =
                       AddHit(@, Hit(detector_dict[k], st.time[1], e.v))]

\* the if/elif chain on TB, SE, TE, TS, NF and IN
Globals(st, ln, shift) ==
    CASE ln.key = "TB" ->
            IF Len(ln.args) < 1 THEN Raise(st, "IndexError")
            ELSE LET p == ParseNum(ln.args[1])
                 IN  IF ~p.ok THEN Raise(st, "ValueError")
                     ELSE [st EXCEPT !.obj.tstart = Some(BoundOf(p.v, shift))]
      [] ln.key = "SE" -> [st EXCEPT !.in_events = TRUE]
      [] ln.key = "TE" ->
            IF Len(ln.args) < 1 THEN Raise(st, "IndexError")
            ELSE LET p == ParseNum(ln.args[1])
                 IN  IF ~p.ok THEN Raise(st, "ValueError")
                     ELSE [st EXCEPT !.obj.tstop = Some(BoundOf(p.v, shift))]
      [] ln.key = "TS" ->
            IF Len(ln.args) < 1 THEN Raise(st, "IndexError")
            ELSE LET p == ParseNum(ln.args[1])
                 IN  IF ~p.ok THEN Raise(st, "ValueError")
                     ELSE [st EXCEPT !.obj.nthrown = Some(p.v)]
      [] ln.key \in {"NF", "IN"} -> Raise(st, UnsupportedErr)
      [] OTHER -> st

\* inside an event block, a record that is neither EN nor HT: `continue`
InsideFallThrough(st, ln, shift) == Globals(st, ln, shift)
InsideOther(st, ln, shift) == st

\* if key == 'EN': in_events = False; continue
EndEventStays(st) == st
EndEventResetsTime(st) == [st EXCEPT !.in_events = FALSE, !.time = None]
EndEvent(st) == [st EXCEPT !.in_events = FALSE]

\* one iteration of the while loop on a record that was read
ScanLine(st, ln, shift) ==
    IF st.in_events
    THEN IF ln.key = "EN" THEN EndEvent(st)
         ELSE LET s1 == IF ln.key = "TI" THEN ReadTI(st, ln, shift) ELSE st
              IN  IF s1.pc = "raised" THEN s1
                  ELSE IF ln.key # "HT" THEN InsideOther(s1, ln, shift)
                  ELSE LET s2 == ReadHT(s1, ln)
                       IN  IF s2.pc = "raised" THEN s2
                           ELSE Globals(s2, ln, shift)
    ELSE Globals(st, ln, shift)

\* the three assert statements: the key of the first that fails, "" if none
MissingKeyNoTS(o) ==
    IF o.tstart = None THEN "TB" ELSE IF o.tstop = None THEN "TE" ELSE ""
MissingKey(o) ==
    IF o.tstart = None THEN "TB"
    ELSE IF o.tstop = None THEN "TE"
    ELSE IF o.nthrown = None THEN "TS"
    ELSE ""

\* readline() returned '': break, file.close(), the asserts, return obj
FinishOutsideOnly(st) ==
    LET k == MissingKey(st.obj)
    IN  IF st.in_events THEN Raise(st, "MalformedRecord")
        ELSE IF k # "" THEN Raise(st, AssertErr(k))
        ELSE [st EXCEPT !.pc = "returned"]
Finish(st) ==
    LET k == MissingKey(st.obj)
    IN  IF k # "" THEN Raise(st, AssertErr(k)) ELSE [st EXCEPT !.pc = "returned"]

-----------------------------------------------------------------------------
(* What the records read so far were *)

\* inBlock   the last SE or EN record read is an SE
\* nfin      an NF or IN record was read
\* lastTI    the value of the last TI record read that has one
\* lastTIin  the same, among the TI records read after an SE with no EN in
\*           between
\* hts       the HT records read after an SE with no EN in between, each with
\*           lastTIin as it was when the record was read
\* eof       the end of the log was reached
NoHist ==
    [inBlock |-> FALSE, nfin |-> FALSE, lastTI |-> None, lastTIin |-> None,
     hts |-> <<>>, eof |-> FALSE]

HasValue(ln) == Len(ln.args) >= 1 /\ ParseNum(ln.args[1]).ok

Record(h, ln) ==
    LET isTI == ln.key = "TI" /\ HasValue(ln)
        ti   == IF isTI THEN Some(ParseNum(ln.args[1]).v) ELSE h.lastTI
        tiIn == IF isTI /\ h.inBlock THEN Some(ParseNum(ln.args[1]).v)
                ELSE h.lastTIin
    IN  [h EXCEPT
           !.inBlock = IF ln.key = "SE" THEN TRUE
                       ELSE IF ln.key = "EN" THEN FALSE ELSE @,
           !.nfin = @ \/ ln.key \in {"NF", "IN"},
           !.lastTI = ti,
           !.lastTIin = tiIn,
           !.hts = IF ln.key = "HT" /\ h.inBlock
                   THEN Append(@, [ht |-> ln, tiIn |-> tiIn])
                   ELSE @]

-----------------------------------------------------------------------------
(* Values of the variables an operation does not use *)

IdleOpen ==
    /\ time_shift = 0 /\ line = NoRec /\ pc = "idle" /\ err = ""
    /\ in_events = FALSE /\ time = None /\ obj = NewSim
    /\ ref = Frame("idle", "", FALSE, None, NewSim) /\ hist = NoHist

IdleMerge ==
    /\ heap = <<>> /\ runs = <<>>
    /\ call = [self |-> "", other |-> "", shift |-> 0] /\ nmerges = 0
    /\ past = <<>>

IdleTTE == tte = [pc |-> "idle"]

-----------------------------------------------------------------------------
(* Spec: CosimaSim.open(filename, detector_dict, time_shift) *)

Init ==
    /\ time_shift \in Shifts
    /\ line = NoRec
    /\ pc = "scan" /\ err = "" /\ in_events = FALSE /\ time = None
    /\ obj = NewSim
    /\ ref = OpenFrame
    /\ hist = NoHist
    /\ IdleMerge /\ IdleTTE

Current == Frame(pc, err, in_events, time, obj)

Become(st) ==
    /\ pc' = st.pc /\ err' = st.err /\ in_events' = st.in_events
    /\ time' = st.time /\ obj' = st.obj

\* line = file.readline() returned a record: one iteration of the loop
ReadLine ==
    /\ pc = "scan"
    /\ \E ln \in Lines :
          /\ (ln.key = "HT" /\ hist.inBlock) => Len(hist.hts) < MaxHits
          /\ line' = ln
          /\ Become(ScanLine(Current, ln, time_shift))
          /\ ref' = IF ref.pc = "scan" THEN ScanLine(ref, ln, 0) ELSE ref
          /\ hist' = Record(hist, ln)
    /\ UNCHANGED <<time_shift, heap, runs, call, nmerges, past,
                   tte>>

\* line = file.readline() returned '': the loop ends
EndOfFile ==
    /\ pc = "scan"
    /\ line' = NoRec
    /\ Become(Finish(Current))
    /\ ref' = IF ref.pc = "scan" THEN Finish(ref) ELSE ref
    /\ hist' = [hist EXCEPT !.eof = TRUE]
    /\ UNCHANGED <<time_shift, heap, runs, call, nmerges, past,
                   tte>>

Next == ReadLine \/ EndOfFile

Spec == Init /\ [][Next]_vars

-----------------------------------------------------------------------------
(* Claims about open *)

\* a step of open that reads a record of key k with a number as its value
ReadsValue(k) == pc = "scan" /\ line'.key = k /\ HasValue(line')

ValueRead == ParseNum(line'.args[1]).v

\* C1 (as claimed): a log in which an NF or IN record was read, at any
\* position, never makes open return a run.
C1_NoRunWhenNFIN == pc = "returned" => ~hist.nfin

\* C2 (as claimed): a TB, TE or TS record sets tstart, tstop or nthrown
\* whatever the parse state is, inside an event block as outside.
C2_GlobalsRegardlessOfState ==
    [][ /\ ReadsValue("TB") => obj'.tstart = Some(ValueRead + time_shift)
        /\ ReadsValue("TE") => obj'.tstop = Some(ValueRead + time_shift)
        /\ ReadsValue("TS") => obj'.nthrown = Some(ValueRead) ]_vars

\* C2 (amended): a TB, TE or TS record sets tstart, tstop or nthrown only
\* when it is read outside an event block; read inside an event block it
\* leaves tstart, tstop and nthrown as they were.
C2_GlobalsOnlyOutside ==
    [][ /\ (ReadsValue("TB") /\ ~in_events)
              => obj'.tstart = Some(ValueRead + time_shift)
        /\ (ReadsValue("TE") /\ ~in_events)
              => obj'.tstop = Some(ValueRead + time_shift)
        /\ (ReadsValue("TS") /\ ~in_events)
              => obj'.nthrown = Some(ValueRead)
        /\ (pc = "scan" /\ line'.key \in {"TB", "TE", "TS"} /\ in_events)
              => /\ obj'.tstart = obj.tstart /\ obj'.tstop = obj.tstop
                 /\ obj'.nthrown = obj.nthrown /\ pc' = "scan" ]_vars

\* a TB 3 record was read inside an event block after TB 1 was read outside
C2_Witness ==
    /\ pc = "scan" /\ in_events /\ line = Rec("TB", <<Fld("3")>>)
    /\ obj.tstart = Some(1 + time_shift)

\* C3: when the end of the log is reached with tstart, tstop or nthrown
\* never set, open raises the assertion error that names the first missing
\* key in the order TB, TE, TS and returns no run; and such an error is
\* raised only once the end of the log was reached.
C3_MissingRequiredField ==
    LET missing == None \in {obj.tstart, obj.tstop, obj.nthrown}
        first   == IF obj.tstart = None THEN "TB"
                   ELSE IF obj.tstop = None THEN "TE" ELSE "TS"
    IN  /\ (hist.eof /\ missing) => (pc = "raised" /\ err = AssertErr(first))
        /\ err \in {AssertErr("TB"), AssertErr("TE"), AssertErr("TS")}
              => (hist.eof /\ missing /\ pc = "raised")

\* the log ended with TB and TE read but no TS
C3_Witness ==
    /\ hist.eof /\ obj.tstart # None /\ obj.tstop # None /\ obj.nthrown = None
    /\ pc = "raised" /\ err = AssertErr("TS")

\* the Hit the claim describes for an HT record h and the value ti of a TI
\* record
ExpectedHit(h, ti) ==
    Hit(detector_dict[CoordKey(h.args[1], h.args[2])],
        ti[1] + time_shift,
        ParseNum(h.args[4]).v)

\* C4 (as claimed): in a log on which open succeeds (here: TB, TE and TS
\* were read, so that open returns a run if the log ends after this record),
\* the Hit of an HT record inside an event block is added last and has the
\* time of the most recent TI record of the log (wherever that record is)
\* plus time_shift.
C4_HitsFromLastTI ==
    [][ ( /\ pc = "scan" /\ pc' = "scan" /\ line'.key = "HT" /\ hist.inBlock
          /\ None \notin {obj.tstart, obj.tstop, obj.nthrown} )
            => /\ Len(obj'.hits) = Len(obj.hits) + 1
               /\ hist'.lastTI # None
               /\ obj'.hits[Len(obj'.hits)]
                      = ExpectedHit(line', hist'.lastTI) ]_vars

\* C4 (amended): the hits of a returned run are one Hit per HT record inside
\* an event block, in log order, each with its detector, its energy and the
\* time of the most recent TI record that lies inside an event block, plus
\* time_shift.
C4_HitsFromLastTIInside ==
    pc = "returned" =>
        /\ Len(obj.hits) = Len(hist.hts)
        /\ \A i \in 1..Len(hist.hts) :
              /\ hist.hts[i].tiIn # None
              /\ obj.hits[i] = ExpectedHit(hist.hts[i].ht, hist.hts[i].tiIn)

\* a run was returned with two hits that are not in time order and differ
\* in detector and energy
C4_Witness ==
    /\ pc = "returned" /\ Len(obj.hits) = 2
    /\ obj.hits[1].time > obj.hits[2].time
    /\ obj.hits[1].detector = "q0" /\ obj.hits[2].detector = "q2"
    /\ obj.hits[1].energy = 7 /\ obj.hits[2].energy = 9

\* run r with s added to tstart, tstop and every hit time
ShiftRun(r, s) ==
    [tstart  |-> Some(r.tstart[1] + s),
     tstop   |-> Some(r.tstop[1] + s),
     nthrown |-> r.nthrown,
     hits    |-> [i \in 1..Len(r.hits) |->
                     [r.hits[i] EXCEPT !.time = @ + s]]]

\* C10: when open(log, map, s) returns a run, open(log, map, 0) returns one
\* too, and the former is the latter with s added to tstart, tstop and every
\* hit time, everything else equal.
C10_ShiftUniform ==
    /\ pc = "returned" =>
          (ref.pc = "returned" /\ obj = ShiftRun(ref.obj, time_shift))
    /\ ref.pc = "returned" => pc = "returned"

\* a run with a hit was returned under a shift that is not zero
C10_Witness ==
    /\ pc = "returned" /\ time_shift # 0 /\ Len(obj.hits) = 2
    /\ obj.hits[1].time # obj.hits[2].time

-----------------------------------------------------------------------------
(* CosimaSim.merge(self, sim2, shift) *)

RunIds == {"a", "b", "c"}

\* the values of argument shift
MergeShifts == {-2, 0, 1}

\* runs as open returns them: the bounds in either order, the hits in log
\* order (sorted or not, with or without equal times, none at all)
RunShapes ==
    { [tstart |-> 0, tstop |-> 4, nthrown |-> 5, hits |-> <<>>],
      [tstart |-> 1, tstop |-> 3, nthrown |-> 7,
       hits |-> <<Hit("q0", 2, 7), Hit("q2", 1, 9)>>],
      [tstart |-> 0, tstop |-> 2, nthrown |-> 1, hits |-> <<Hit("q1", 1, 3)>>],
      [tstart |-> 3, tstop |-> 1, nthrown |-> 2,
       hits |-> <<Hit("q3", 1, 4), Hit("q0", 1, 8)>>] }

\* self.tstart = min(self.tstart, sim2.tstart + shift)
MergeTstartNoShift(mine, theirs, shift) == Min(mine, theirs)
MergeTstartLatest(mine, theirs, shift) == Max(mine, theirs - shift)
MergeTstart(mine, theirs, shift) == Min(mine, theirs + shift)

\* self.tstop = max(self.tstop, sim2.tstop + shift)
MergeTstopShiftsBoth(mine, theirs, shift) == Max(mine + shift, theirs + shift)
MergeTstop(mine, theirs, shift) == Max(mine, theirs + shift)

\* self.nthrown += sim2.nthrown
MergeNthrown(mine, theirs) == mine + theirs

\* the loop over sim2.hits, on the Hit objects: hit.time = hit.time + shift
\* is an assignment to the object that sim2.hits holds, once per element
RECURSIVE ShiftHits(_, _, _)
ShiftHits(hp, ids, shift) ==
    IF ids = <<>> THEN hp
    ELSE ShiftHits([hp EXCEPT ![Head(ids)].time = @ + shift], Tail(ids), shift)

\* the loop over sim2.hits, on self.hits: np.append(self.hits, hit) adds the
\* same object at the end
AppendHits(mine, theirs) == mine \o theirs

\* Hit.__lt__
HitLess(h1, h2) == h1.time < h2.time

\* np.argsort(self.hits): the orders of the indices in which no hit is less
\* than the one before it.  The default kind of argsort (quicksort) does not
\* fix the order of hits that compare equal, so every such order is one.
RECURSIVE ArgSorts(_, _, _)
ArgSorts(idx, ids, hp) ==
    IF idx = {} THEN {<<>>}
    ELSE UNION { { <<i>> \o r : r \in ArgSorts(idx \ {i}, ids, hp) } :
                 i \in { i \in idx :
                           \A j \in idx : ~HitLess(hp[ids[j]], hp[ids[i]]) } }

\* self.hits = [self.hits[n] for n in hits_sort]
Reorder(ids, order) == [n \in 1..Len(order) |-> ids[order[n]]]

\* the body of merge on the runs rs and the Hit objects hp: what rs and hp
\* can be after it
MergeOutcomes(rs, hp, self, other, shift) ==
    LET hp2 == ShiftHits(hp, rs[other].hits, shift)
        all == AppendHits(rs[self].hits, rs[other].hits)
    IN  { [heap |-> hp2,
           runs |-> [rs EXCEPT ![self] =
                   [tstart  |-> MergeTstart(rs[self].tstart,
                                            rs[other].tstart, shift),
                    tstop   |-> MergeTstop(rs[self].tstop,
                                           rs[other].tstop, shift),
                    nthrown |-> MergeNthrown(rs[self].nthrown,
                                             rs[other].nthrown),
                    hits    |-> Reorder(all, order)]]] :
          order \in ArgSorts(1..Len(all), all, hp2) }

Merge(self, other, shift) ==
    /\ nmerges < MaxMerges
    /\ self # other
    /\ Len(runs[self].hits) + Len(runs[other].hits) <= MaxLen
    /\ \E out \in MergeOutcomes(runs, heap, self, other, shift) :
          heap' = out.heap /\ runs' = out.runs
    /\ call' = [self |-> self, other |-> other, shift |-> shift]
    /\ nmerges' = nmerges + 1
    /\ past' = Append(past, [runs |-> runs, heap |-> heap, call |-> call'])
    /\ UNCHANGED <<time_shift, line, pc, err, in_events, time, obj, ref, hist,
                   tte>>

\* the Hit objects of three runs: those of a, then those of b, then those of c
InitMerge ==
    /\ IdleOpen /\ IdleTTE
    /\ call = [self |-> "", other |-> "", shift |-> 0] /\ nmerges = 0
    /\ past = <<>>
    /\ \E sa \in RunShapes, sb \in RunShapes, sc \in RunShapes :
          LET la == Len(sa.hits)
              lb == Len(sb.hits)
              lc == Len(sc.hits)
          IN  /\ la + lb + lc <= MaxLen
              /\ heap = sa.hits \o sb.hits \o sc.hits
              /\ runs = ("a" :> [sa EXCEPT !.hits = [i \in 1..la |-> i]]) @@
                        ("b" :> [sb EXCEPT !.hits = [i \in 1..lb |-> la + i]]) @@
                        ("c" :> [sc EXCEPT !.hits =
                                    [i \in 1..lc |-> la + lb + i]])

MergeCall ==
    \E self \in RunIds, other \in RunIds, shift \in MergeShifts :
        Merge(self, other, shift)

NextMerge == MergeCall

SpecMerge == InitMerge /\ [][NextMerge]_vars

-----------------------------------------------------------------------------
(* Claims about merge *)

\* the Hit values (detector, time, energy) that a list of Hit objects holds
Values(ids, hp) == [i \in 1..Len(ids) |-> hp[ids[i]]]

Count(seq, v) == Cardinality({i \in 1..Len(seq) : seq[i] = v})

Range(seq) == {seq[i] : i \in 1..Len(seq)}

\* C5 (as claimed): a merge call leaves other.tstart, other.tstop,
\* other.nthrown and the time of every hit of other.hits as they were, and
\* afterwards no Hit object is held by both self.hits and other.hits.
C5_MergeLeavesOtherAlone ==
    [][ nmerges' = nmerges + 1 =>
          LET s == call'.self
              o == call'.other
          IN  /\ runs'[o].tstart = runs[o].tstart
              /\ runs'[o].tstop = runs[o].tstop
              /\ runs'[o].nthrown = runs[o].nthrown
              /\ Len(runs'[o].hits) = Len(runs[o].hits)
              /\ \A i \in 1..Len(runs[o].hits) :
                    heap'[runs'[o].hits[i]].time = heap[runs[o].hits[i]].time
              /\ Range(runs'[s].hits) \cap Range(runs'[o].hits) = {} ]_vars

\* C6 (as claimed): after a merge call, in any sequence of merge calls,
\* self.hits is in ascending order of time, its length is the sum of the two
\* lengths, and as a multiset of (detector, time, energy) it is the hits self
\* had before the call together with the hits of other with shift added to
\* their times.
C6_MergedHitsSortedMultiset ==
    [][ nmerges' = nmerges + 1 =>
          LET s == call'.self
              o == call'.other
              before   == Values(runs[s].hits, heap)
              theirs   == Values(runs[o].hits, heap)
              shifted  == [i \in 1..Len(theirs) |->
                              [theirs[i] EXCEPT !.time = @ + call'.shift]]
              expected == before \o shifted
              after    == Values(runs'[s].hits, heap')
          IN  /\ Len(after) = Len(before) + Len(theirs)
              /\ \A i \in 1..(Len(after) - 1) :
                    after[i].time <= after[i + 1].time
              /\ \A v \in Range(expected) \cup Range(after) :
                    Count(after, v) = Count(expected, v) ]_vars

\* C7: a merge call sets self.tstart to the smaller of self.tstart and
\* other.tstart + shift, self.tstop to the larger of self.tstop and
\* other.tstop + shift, and self.nthrown to the sum of the two nthrown.
C7_MergeBounds ==
    [][ nmerges' = nmerges + 1 =>
          LET s == call'.self
              o == call'.other
              d == call'.shift
          IN  /\ runs'[s].tstart =
                    (IF runs[o].tstart + d < runs[s].tstart
                     THEN runs[o].tstart + d ELSE runs[s].tstart)
              /\ runs'[s].tstop =
                    (IF runs[o].tstop + d > runs[s].tstop
                     THEN runs[o].tstop + d ELSE runs[s].tstop)
              /\ runs'[s].nthrown = runs[s].nthrown + runs[o].nthrown ]_vars

\* after a second merge, this one with a negative shift, self.tstart is
\* other.tstart + shift and self.tstop is above other.tstop + shift
C7_Witness ==
    /\ nmerges = 2 /\ call.shift < 0
    /\ runs[call.self].tstart = runs[call.other].tstart + call.shift
    /\ runs[call.self].tstart < 0
    /\ runs[call.self].tstop > runs[call.other].tstop + call.shift
    /\ runs[call.self].nthrown > runs[call.other].nthrown

-----------------------------------------------------------------------------
(* CosimaSim.to_TTE(self, energy_channel_edges) *)

\* an energy Quantity: a value and its unit
Qty(v, u) == [value |-> v, unit |-> u]

\* e.to(u.keV).value
ToKeV(q) == IF q.unit = "MeV" THEN q.value * 1000 ELSE q.value

\* the edges the tables of the model are made of
EdgePool == {Qty(2, "keV"), Qty(4, "keV"), Qty(1, "MeV")}

\* argument energy_channel_edges: N+1 edges, N >= 1, strictly increasing
EdgeTables ==
    { t \in UNION { [1..n -> EdgePool] : n \in 2..Cardinality(EdgePool) } :
        \A i \in 1..(Len(t) - 1) : ToKeV(t[i]) < ToKeV(t[i + 1]) }

\* the energies (keV) and times (s) of the hits of the run
TTEEnergies == {1, 2, 3, 4, 1000, 1001}
TTETimes == {0, 5}

\* np.digitize(x, bins), bins increasing: the i with bins[i-1] <= x < bins[i],
\* 0 below the first bin and len(bins) from the last bin on
DigitizeRight(x, bins) == Cardinality({i \in 1..Len(bins) : bins[i] < x})
Digitize(x, bins) == Cardinality({i \in 1..Len(bins) : bins[i] <= x})

\* min(nchannels-1, max(0, energy_channel))
Clamp(c, nchannels) == Min(nchannels - 1, Max(0, c))

\* times += [hit.time.to(u.second).value]
AddTimeFront(times, t) == <<t>> \o times
AddTime(times, t) == times \o <<t>>

\* energy_channels += [energy_channel]
AddChannel(chans, c) == chans \o <<c>>

\* energy_channel_edges[:-1] and energy_channel_edges[1:]
ChanLo(edges) == SubSeq(edges, 1, Len(edges) - 1)
ChanHi(edges) == SubSeq(edges, 2, Len(edges))

NoEvt == [times_list |-> <<>>, pha_list |-> <<>>, chan_lo |-> <<>>,
          chan_hi |-> <<>>]

TTEFrame(p, arg, edges, n, times, chans, evt) ==
    [pc |-> p, energy_channel_edges |-> arg, edges |-> edges,
     nchannels |-> n, times |-> times, energy_channels |-> chans, evt |-> evt]

\* a run with at most MaxLen hits, and the call of to_TTE on it
InitTTE ==
    /\ IdleOpen
    /\ call = [self |-> "", other |-> "", shift |-> 0] /\ nmerges = 0
    /\ past = <<>>
    /\ \E n \in 0..MaxLen :
          /\ heap \in [1..n -> { Hit("q0", t, e) :
                                    t \in TTETimes, e \in TTEEnergies }]
          /\ runs = ("a" :> [tstart |-> 0, tstop |-> 5, nthrown |-> 5,
                             hits |-> [i \in 1..n |-> i]])
    /\ \E t \in EdgeTables :
          tte = TTEFrame("call", t, <<>>, 0, <<>>, <<>>, NoEvt)

\* times = []; energy_channels = []; the edges in keV; nchannels
TTEStart ==
    /\ tte.pc = "call"
    /\ LET edges == [i \in 1..Len(tte.energy_channel_edges) |->
                        ToKeV(tte.energy_channel_edges[i])]
       IN  tte' = [tte EXCEPT !.pc = "loop", !.edges = edges,
                              !.nchannels = Len(edges) - 1]
    /\ UNCHANGED <<time_shift, line, pc, err, in_events, time, obj, ref, hist,
                   heap, runs, call, nmerges, past>>

\* one iteration of `for hit in self.hits`
TTEHit ==
    /\ tte.pc = "loop"
    /\ Len(tte.times) < Len(runs["a"].hits)
    /\ LET hit == heap[runs["a"].hits[Len(tte.times) + 1]]
           energy_channel ==
               Clamp(Digitize(hit.energy, tte.edges) - 1, tte.nchannels)
       IN  tte' = [tte EXCEPT
                     !.times = AddTime(@, hit.time),
                     !.energy_channels = AddChannel(@, energy_channel)]
    /\ UNCHANGED <<time_shift, line, pc, err, in_events, time, obj, ref, hist,
                   heap, runs, call, nmerges, past>>

\* the loop is over: the arguments of EventList.from_lists
TTEBuild ==
    /\ tte.pc = "loop"
    /\ Len(tte.times) = Len(runs["a"].hits)
    /\ tte' = [tte EXCEPT
                 !.pc = "done",
                 !.evt = [times_list |-> tte.times,
                          pha_list   |-> tte.energy_channels,
                          chan_lo    |-> ChanLo(tte.edges),
                          chan_hi    |-> ChanHi(tte.edges)]]
    /\ UNCHANGED <<time_shift, line, pc, err, in_events, time, obj, ref, hist,
                   heap, runs, call, nmerges, past>>

NextTTE == TTEStart \/ TTEHit \/ TTEBuild

SpecTTE == InitTTE /\ [][NextTTE]_vars

-----------------------------------------------------------------------------
(* Claims about to_TTE *)

\* the channel the specification defines for energy e and edges E (in keV):
\* 0 below the first edge, N-1 from the last edge on, and otherwise the i
\* (counted from 0) with E[i] <= e < E[i+1]
ChannelOf(e, E) ==
    IF e < E[1] THEN 0
    ELSE IF e >= E[Len(E)] THEN Len(E) - 2
    ELSE CHOOSE i \in 0..(Len(E) - 2) : E[i + 1] <= e /\ e < E[i + 2]

\* the energy of the j-th hit of the run
EnergyOfHit(j) == heap[runs["a"].hits[j]].energy

\* C8: every channel to_TTE assigns is the clamped channel of the hit's
\* energy: i when edges[i] <= e < edges[i+1], 0 below edges[0], N-1 from
\* edges[N] on; so it lies in 0..N-1.
C8_ChannelTotalClamped ==
    tte.pc \in {"loop", "done"} =>
        \A j \in 1..Len(tte.energy_channels) :
            LET c == tte.energy_channels[j]
                e == EnergyOfHit(j)
                E == [i \in 1..Len(tte.energy_channel_edges) |->
                         ToKeV(tte.energy_channel_edges[i])]
                N == Len(E) - 1
            IN  /\ 0 <= c /\ c < N
                /\ e < E[1] => c = 0
                /\ e >= E[N + 1] => c = N - 1
                /\ \A i \in 0..(N - 1) :
                      (E[i + 1] <= e /\ e < E[i + 2]) => c = i

\* three edges, one in MeV; a hit on the inner edge got channel 1 and a hit
\* above the last edge got channel 1 as well
C8_Witness ==
    /\ tte.pc = "done" /\ Len(tte.energy_channel_edges) = 3
    /\ Len(tte.energy_channels) = 2
    /\ EnergyOfHit(1) = 4 /\ tte.energy_channels[1] = 1
    /\ EnergyOfHit(2) = 1001 /\ tte.energy_channels[2] = 1

\* C9: the event list has one event per hit, in the order of run.hits, the
\* k-th with the k-th hit's time and the channel of the k-th hit's energy,
\* and its channel table is low = edges[:-1], high = edges[1:].
C9_OneEventPerHit ==
    tte.pc = "done" =>
        LET hits == runs["a"].hits
            E == [i \in 1..Len(tte.energy_channel_edges) |->
                     ToKeV(tte.energy_channel_edges[i])]
        IN  /\ Len(tte.evt.times_list) = Len(hits)
            /\ Len(tte.evt.pha_list) = Len(hits)
            /\ \A k \in 1..Len(hits) :
                  /\ tte.evt.times_list[k] = heap[hits[k]].time
                  /\ tte.evt.pha_list[k] = ChannelOf(heap[hits[k]].energy, E)
            /\ tte.evt.chan_lo = [i \in 1..(Len(E) - 1) |-> E[i]]
            /\ tte.evt.chan_hi = [i \in 1..(Len(E) - 1) |-> E[i + 1]]

\* two hits that are not in time order, the first below the first edge
C9_Witness ==
    /\ tte.pc = "done" /\ Len(runs["a"].hits) = 2
    /\ tte.evt.times_list = <<5, 0>>
    /\ EnergyOfHit(1) = 1 /\ tte.evt.pha_list[1] = 0
    /\ tte.evt.pha_list[2] = 1

-----------------------------------------------------------------------------
(* Claims about open: bounds, errors and the parse state *)

\* C11 (as claimed): every run that open returns has tstart <= tstop,
\* whatever the log (TB value above the TE value, repeated TB and TE
\* records).
C11_BoundsOrdered == pc = "returned" => obj.tstart[1] <= obj.tstop[1]

\* the record read by this step is an HT record, read inside an event block,
\* whose trimmed "x,y" pair is not a key of detector_dict
UnknownCoordinate ==
    /\ pc = "scan" /\ hist.inBlock /\ line'.key = "HT"
    /\ Len(line'.args) >= 2
    /\ CoordKey(line'.args[1], line'.args[2]) \notin DOMAIN detector_dict

\* C12: an HT record inside an event block whose trimmed "x,y" pair is not
\* a key of detector_dict makes open fail at that record (a KeyError when
\* the record has its five fields): the hits collected so far are not
\* returned, and once open has failed no run is returned.
C12_UnknownDetectorCoordinate ==
    [][ /\ UnknownCoordinate =>
              /\ pc' = "raised" /\ obj' = obj
              /\ Len(line'.args) >= 4 => err' = "KeyError"
        /\ pc = "raised" => pc' = "raised" ]_vars

\* open failed on an HT record with an unknown coordinate pair after it had
\* already collected a hit
C12_Witness ==
    /\ pc = "raised" /\ err = "KeyError" /\ line.key = "HT" /\ hist.inBlock
    /\ CoordKey(line.args[1], line.args[2]) \notin DOMAIN detector_dict
    /\ Len(obj.hits) = 1

\* a record with a recognized key and fewer fields than its key requires:
\* no value after TB, TE, TS or TI, fewer than five fields separated by
\* semicolons in an HT record
TooFewFields(ln) ==
    \/ ln.key \in {"TB", "TE", "TS", "TI"} /\ Len(ln.args) < 1
    \/ ln.key = "HT" /\ Len(ln.args) < 4

\* C13 (as claimed): a record with a recognized key and too few fields makes
\* open fail wherever it occurs, inside or outside an event block.
C13_MalformedAnywhere ==
    [][ (pc = "scan" /\ TooFewFields(line')) => pc' = "raised" ]_vars

\* C13 (amended): a record with too few fields makes open fail (IndexError)
\* where its key is processed, that is TB, TE and TS outside an event block
\* and TI and HT inside one; elsewhere the record is skipped and open goes
\* on with the run, the current time and the parse state as they were.
C13_MalformedWhereProcessed ==
    [][ (pc = "scan" /\ TooFewFields(line')) =>
            IF hist.inBlock = (line'.key \in {"TI", "HT"})
            THEN pc' = "raised" /\ err' = "IndexError" /\ obj' = obj
            ELSE /\ pc' = "scan" /\ obj' = obj /\ time' = time
                 /\ in_events' = in_events ]_vars

\* a TB record without a value was read inside an event block, after tstart
\* had been set, and open goes on
C13_Witness ==
    /\ pc = "scan" /\ hist.inBlock /\ line.key = "TB" /\ line.args = <<>>
    /\ obj.tstart # None

\* C14: the parse state of open starts Outside; a step of open moves it to
\* InsideEvent exactly when it reads SE while Outside and to Outside exactly
\* when it reads EN while InsideEvent, and every other step (SE while
\* InsideEvent, EN while Outside, any other record, the end of the log)
\* leaves it as it was; a TI or HT record read while Outside adds no hit,
\* leaves the current time as it was and does not stop open.
C14_ParseState ==
    /\ ~in_events
    /\ [][ pc = "scan" =>
              /\ in_events' = IF ~in_events /\ line'.key = "SE" THEN TRUE
                              ELSE IF in_events /\ line'.key = "EN" THEN FALSE
                              ELSE in_events
              /\ (~in_events /\ line'.key \in {"TI", "HT"}) =>
                    (obj' = obj /\ time' = time /\ pc' = "scan") ]_vars

\* an HT record was read while Outside, after a block that set the current
\* time and added a hit had been closed by EN
C14_Witness ==
    /\ pc = "scan" /\ ~in_events /\ line.key = "HT" /\ Len(line.args) = 4
    /\ time # None /\ Len(obj.hits) = 1 /\ Len(hist.hts) = 1

\* C17: open does not look at the parse state when the log ends: if the log
\* ends inside an event block (no EN after the last SE) with tstart, tstop
\* and nthrown set, open returns the run as it stands, with every hit read
\* so far; and each HT record that open gets past inside a block, the
\* unterminated one included, has added its hit to that run.
C17_UnterminatedBlockAccepted ==
    [][ /\ ( /\ pc = "scan" /\ hist'.eof /\ hist.inBlock
              /\ None \notin {obj.tstart, obj.tstop, obj.nthrown} )
              => (pc' = "returned" /\ obj' = obj /\ in_events')
        /\ ( /\ pc = "scan" /\ pc' = "scan" /\ hist.inBlock
              /\ line'.key = "HT" )
              => Len(obj'.hits) = Len(obj.hits) + 1 ]_vars

\* a run with two hits was returned from a log that ended inside an event
\* block
C17_Witness ==
    /\ pc = "returned" /\ hist.eof /\ hist.inBlock /\ in_events
    /\ Len(obj.hits) = 2 /\ Len(hist.hts) = 2

\* an HT record with its five fields, a coordinate pair of detector_dict and
\* a number as its energy
WellFormedHT(ln) ==
    /\ ln.key = "HT" /\ Len(ln.args) >= 4
    /\ CoordKey(ln.args[1], ln.args[2]) \in DOMAIN detector_dict
    /\ ParseNum(ln.args[4]).ok

\* C18: SE and EN leave the current time as it was; the hit of a well-formed
\* HT record inside an event block gets the time of the last TI record read
\* inside an event block, the current block or an earlier one, plus
\* time_shift; and when no TI record was read inside any block so far (in
\* particular when the log had no TI record at all so far) the HT record
\* makes open fail with UnboundLocalError and adds no hit.
C18_TimeNotReset ==
    [][ /\ (pc = "scan" /\ line'.key \in {"SE", "EN"})
              => (time' = time /\ pc' = "scan")
        /\ (pc = "scan" /\ hist.inBlock /\ WellFormedHT(line'))
              => IF hist.lastTIin # None
                 THEN /\ pc' = "scan"
                      /\ Len(obj'.hits) = Len(obj.hits) + 1
                      /\ obj'.hits[Len(obj'.hits)].time
                             = hist.lastTIin[1] + time_shift
                 ELSE /\ pc' = "raised" /\ err' = "UnboundLocalError"
                      /\ obj' = obj ]_vars

\* the last TI record of the log (value 4) was read outside a block, so the
\* block being read has no TI record; its HT record got the time of the TI
\* record (value 1) of an earlier block
C18_Witness ==
    /\ pc = "scan" /\ hist.inBlock /\ line.key = "HT"
    /\ hist.lastTI = Some(4) /\ hist.lastTIin = Some(1)
    /\ Len(obj.hits) = 1 /\ obj.hits[1].time = 1 + time_shift

-----------------------------------------------------------------------------
(* Claims about merge: the order of equal times, sequences of merges *)

\* the orders of the indices of ids that a stable sort by time gives: hits
\* of equal time stay in the order they have in ids
StableArgSorts(ids, hp) ==
    { order \in ArgSorts(1..Len(ids), ids, hp) :
        \A p, q \in 1..Len(ids) :
            (p < q /\ hp[ids[order[p]]].time = hp[ids[order[q]]].time)
                => order[p] < order[q] }

\* C15 (as claimed): the sort in merge is stable: after merge, self.hits is
\* the sequence of self's hits followed by other's hits, sorted by time
\* with hits of equal time in the order they have in that sequence.
C15_SortStable ==
    [][ nmerges' = nmerges + 1 =>
          LET all == runs[call'.self].hits \o runs[call'.other].hits
          IN  \E order \in StableArgSorts(all, heap') :
                 runs'[call'.self].hits = Reorder(all, order) ]_vars

\* the bounds invariant of a run
BoundsOrdered(r) == r.tstart <= r.tstop

\* C19: a merge whose two operands have tstart <= tstop leaves self with
\* tstart <= tstop, for every shift; it leaves the bounds of every other
\* run as they were, so that when all runs have tstart <= tstop they still
\* have after any sequence of merges.
C19_MergeKeepsBoundsOrdered ==
    [][ nmerges' = nmerges + 1 =>
          /\ ( /\ BoundsOrdered(runs[call'.self])
                /\ BoundsOrdered(runs[call'.other]) )
                => BoundsOrdered(runs'[call'.self])
          /\ \A r \in RunIds \ {call'.self} :
                /\ runs'[r].tstart = runs[r].tstart
                /\ runs'[r].tstop = runs[r].tstop
          /\ (\A r \in RunIds : BoundsOrdered(runs[r]))
                => (\A r \in RunIds : BoundsOrdered(runs'[r])) ]_vars

\* after two merges with shift -2, the second one into a run of bounds 1
\* and 3 from a run that the first one had moved to tstart -2:
\* all runs have tstart <= tstop and self has got the bounds -4 and 3
C19_Witness ==
    /\ nmerges = 2 /\ call.shift = -2
    /\ \A r \in RunIds : BoundsOrdered(runs[r])
    /\ runs[call.self].tstart = -4 /\ runs[call.self].tstop = 3
    /\ runs[call.other].tstart = -2

\* what the claim compares of run r: tstart, tstop, nthrown and the
\* sequence of the times of its hits
Outcome(rs, hp, r) ==
    [tstart |-> rs[r].tstart, tstop |-> rs[r].tstop,
     nthrown |-> rs[r].nthrown,
     times |-> [i \in 1..Len(rs[r].hits) |-> hp[rs[r].hits[i]].time]]

\* what a can be after b.merge(c, s2 - s1) followed by a.merge(b, s1), on
\* the runs rs and the Hit objects hp
MergedRightFirst(rs, hp, a, b, c, s1, s2) ==
    UNION { { Outcome(o2.runs, o2.heap, a) :
                o2 \in MergeOutcomes(o1.runs, o1.heap, a, b, s1) } :
            o1 \in MergeOutcomes(rs, hp, b, c, s2 - s1) }

\* C16: when the last two merges made were a.merge(b, s1) followed by
\* a.merge(c, s2), on three different runs, a has the tstart, tstop, nthrown
\* and sequence of hit times that b.merge(c, s2 - s1) followed by
\* a.merge(b, s1) gives it on the same runs.
C16_MergeAssociative ==
    Len(past) >= 2 =>
        LET m1 == past[Len(past) - 1]
            m2 == past[Len(past)]
            a  == m1.call.self
            b  == m1.call.other
            c  == m2.call.other
        IN  (m2.call.self = a /\ c \notin {a, b}) =>
                MergedRightFirst(m1.runs, m1.heap, a, b, c,
                                 m1.call.shift, m2.call.shift)
                    = {Outcome(runs, heap, a)}

\* a.merge(b, s1) and a.merge(c, s2) were made on runs as open returns them,
\* b and c with a hit each, with s1 and s2 different and not zero
C16_Witness ==
    /\ Len(past) = 2
    /\ past[1].call.self = past[2].call.self
    /\ past[2].call.other \notin {past[1].call.self, past[1].call.other}
    /\ Len(past[1].runs[past[1].call.other].hits) = 1
    /\ Len(past[1].runs[past[2].call.other].hits) = 1
    /\ past[1].call.shift = -2 /\ past[2].call.shift = 1
    /\ Len(runs[call.self].hits) = 2

=============================================================================
